---- MODULE Spec2Model ----
(***************************************************************************)
(* Model of dato/algo2-corrector:                                          *)
(*   src/pull_requests.py  - synchronises deliveries ("entregas") into the *)
(*                           individual student repositories               *)
(*   src/worker/java.py    - CorregirJava, the Java submission corrector   *)
(*                                                                         *)
(* A git tree is modelled as a function from file paths (sequences of path *)
(* components) to [sha, mode]; a directory exists in a tree iff some file  *)
(* path of the tree lies under it, as in git.                              *)
(***************************************************************************)
EXTENDS Integers, Sequences, FiniteSets, TLC

VARIABLES
    \* ---- overwrite_files (tree merge) ----
    mpc,        \* position: "start", "merged", "merged2", "raised"
    repo,       \* destination repository: [tree |-> HEAD tree, odb |-> set of shas]
    repo0,      \* the destination repository as it was when overwrite_files was entered
    tree,       \* the argument `tree`: snapshot with the new contents
    subdir,     \* the argument `subdir`
    result,     \* what overwrite_files returned / raised
    \* ---- update_branch (commit replay) ----
    rpc,        \* position: "start", "done" (returned), "raised" (KeyError escaped)
    alu,        \* the student repository
    alu0,       \* the student repository as it was when update_branch was entered
    upstream,   \* iter_commits(paths=[upstream_relpath]) of the delivery repository,
                \* in the order git yields them (newest first)
    ghuser,     \* the argument `ghuser`
    stdout,     \* what has been printed
    \* ---- the date string built in update_branch ----
    tpc,        \* position: "start", "done"
    tz_commit,  \* the delivery commit: [authored_date, author_tz_offset]
    date_string,    \* the string built for author_date / commit_date
    \* ---- main (batch over legajos) ----
    bpc,        \* position: "start", "loop", "done" (returned), "raised"
    legajos,    \* args.legajos
    idx,        \* index of the next legajo of the loop
    report,     \* per legajo processed: what its iteration did
    status,     \* return value of main: 1, or 0 for None
    \* ---- CorregirJava.run ----
    jpc,        \* position: "loop", "finally", "done" (returned), "raised"
    step,       \* index in `steps` of the next target
    outcomes,   \* step -> <<>> (None) or <<succ, log>> (ResultTuple)
    reject,     \* final_result["reject"]
    invoked,    \* the argument lists given to subprocess.run, in order
    pending_exc,    \* an exception raised in the try block is pending
    written     \* what has been written to sys.stdout

mergeVars == <<mpc, repo, repo0, tree, subdir, result>>
replayVars == <<rpc, alu, alu0, upstream, ghuser, stdout>>
tzVars == <<tpc, tz_commit, date_string>>
batchVars == <<bpc, legajos, idx, report, status>>
javaVars == <<jpc, step, outcomes, reject, invoked, pending_exc, written>>

vars == <<mpc, repo, repo0, tree, subdir, result,
          rpc, alu, alu0, upstream, ghuser, stdout,
          tpc, tz_commit, date_string,
          bpc, legajos, idx, report, status,
          jpc, step, outcomes, reject, invoked, pending_exc, written>>

----------------------------------------------------------------------------
(* Bounds of the model *)

MaxSha == 2
MaxCommits == 3     \* length of a delivery history
MaxTime == 3        \* authored timestamps are 0..MaxTime
MaxTzMinutes == 840 \* timezone offsets are whole minutes within 14 hours of UTC
MaxLegajos == 3     \* number of legajos given to main

----------------------------------------------------------------------------
(* Paths and trees *)

\* Path components in the order Python's string comparison gives them
\* (upper case before lower case, digits before letters inside "tp0").
Names == <<"README", "a", "b", "sub", "tp0", "x">>

NameRank(n) == CHOOSE i \in 1..Len(Names) : Names[i] = n

Shas == 1..MaxSha

\* Regular file and executable file (0o100644, 0o100755).
Modes == {33188, 33261}

Blobs == [sha : Shas, mode : Modes]

IsPrefix(d, p) == Len(d) <= Len(p) /\ SubSeq(p, 1, Len(d)) = d

\* p lies strictly under directory d
Under(d, p) == IsPrefix(d, p) /\ Len(p) > Len(d)

\* sorted() on path strings: lexicographic, a proper prefix first
RECURSIVE PathLess(_, _)
PathLess(p, q) ==
    IF p = <<>> THEN q # <<>>
    ELSE IF q = <<>> THEN FALSE
    ELSE IF Head(p) # Head(q) THEN NameRank(Head(p)) < NameRank(Head(q))
    ELSE PathLess(Tail(p), Tail(q))

EmptyTree == [p \in {} |-> [sha |-> 1, mode |-> 33188]]

\* All trees over a given set of paths.
TreesOver(paths) == UNION {[dom -> Blobs] : dom \in SUBSET paths}

\* git.Tree.join(path): the subtree at `path`; KeyError when no entry has that name.
TreeJoin(t, path) ==
    LET sub == {p \in DOMAIN t : Under(path, p)}
    IN  IF sub = {}
        THEN [ok |-> FALSE, tree |-> EmptyTree]
        ELSE [ok |-> TRUE,
              tree |-> [q \in {SubSeq(p, Len(path) + 1, Len(p)) : p \in sub}
                            |-> t[path \o q]]]

\* objfun.traverse_tree_recursive(odb, binsha, prefix): (sha, mode, path) per file,
\* each path prefixed.
traverse_tree_recursive(t, prefix) ==
    {<<t[p].sha, t[p].mode, prefix \o p>> : p \in DOMAIN t}

RECURSIVE SortPaths(_)
SortPaths(S) ==
    IF S = {} THEN <<>>
    ELSE LET m == CHOOSE p \in S : \A q \in S \ {p} : PathLess(p, q)
         IN  <<m>> \o SortPaths(S \ {m})

\* merged_entries with the update reversed (nt.update(ot)): the old entry wins
merged_entries_oldwins(old_traversal, new_traversal) ==
    LET ot == old_traversal
        nt == new_traversal
        keys == {e[3] : e \in ot \cup nt}
        pick(p) == IF \E e \in ot : e[3] = p
                   THEN CHOOSE e \in ot : e[3] = p
                   ELSE CHOOSE e \in nt : e[3] = p
        order == SortPaths(keys)
    IN  [i \in 1..Len(order) |->
            LET e == pick(order[i]) IN <<e[2], e[1], 0, e[3]>>]

\* ot.update(nt): an entry of the new traversal replaces the old one of the same path
merged_entries(old_traversal, new_traversal) ==
    LET ot == old_traversal
        nt == new_traversal
        keys == {e[3] : e \in ot \cup nt}
        pick(p) == IF \E e \in nt : e[3] = p
                   THEN CHOOSE e \in nt : e[3] = p
                   ELSE CHOOSE e \in ot : e[3] = p
        order == SortPaths(keys)
    IN  [i \in 1..Len(order) |->
            LET e == pick(order[i]) IN <<e[2], e[1], 0, e[3]>>]   \* (mode, sha, 0, path)

\* indexfun.write_tree_from_cache(entries, odb, slice(0, len(entries))):
\* the root tree that holds exactly the given entries.
write_tree_from_cache(entries) ==
    LET at(p) == CHOOSE i \in 1..Len(entries) : entries[i][4] = p
    IN  [p \in {entries[i][4] : i \in 1..Len(entries)} |->
            [sha |-> entries[at(p)][2], mode |-> entries[at(p)][1]]]

\* overwrite_files without `old_tree = old_tree.join(path)`
overwrite_files_nojoin(r, t, sd) ==
    LET prefix == sd
        old_files == traverse_tree_recursive(r.tree, prefix)
        new_files == traverse_tree_recursive(t, prefix)
        new_entries == merged_entries({}, new_files)
        all_entries == merged_entries(old_files, new_files)
    IN  [ok |-> TRUE,
         tree |-> write_tree_from_cache(all_entries),
         odb |-> r.odb \cup {new_entries[i][2] : i \in 1..Len(new_entries)}]

overwrite_files(r, t, sd) ==
    LET prefix == sd                         \* f"{path}/"
        joined == IF sd # <<>> THEN TreeJoin(r.tree, sd)
                               ELSE [ok |-> TRUE, tree |-> r.tree]
        old_files == traverse_tree_recursive(joined.tree, prefix)
        new_files == traverse_tree_recursive(t, prefix)
        new_entries == merged_entries({}, new_files)
        all_entries == merged_entries(old_files, new_files)
    IN  IF ~joined.ok
        THEN [ok |-> FALSE, tree |-> EmptyTree, odb |-> r.odb]      \* KeyError
        ELSE [ok |-> TRUE,
              tree |-> write_tree_from_cache(all_entries),
              odb |-> r.odb \cup {new_entries[i][2] : i \in 1..Len(new_entries)}]

----------------------------------------------------------------------------
(* Tree merge: overwrite_files applied to a repository, then once more *)

D == <<"tp0">>
\* files of a delivery, relative to the delivery directory
RelPaths == {<<"a">>, <<"b">>, <<"sub", "x">>}
\* files of a student repository
RepoPaths == {<<"README">>, D \o <<"a">>, D \o <<"sub", "x">>}

ShasOf(t) == {t[p].sha : p \in DOMAIN t}

MergeIdle ==
    /\ mpc = "idle"
    /\ repo = [tree |-> EmptyTree, odb |-> {}]
    /\ repo0 = repo
    /\ tree = EmptyTree
    /\ subdir = <<>>
    /\ result = [ok |-> TRUE, tree |-> EmptyTree, odb |-> {}]

MergeStart ==
    /\ mpc = "start"
    /\ \E t \in TreesOver(RepoPaths) : repo = [tree |-> t, odb |-> ShasOf(t)]
    /\ repo0 = repo
    /\ tree \in TreesOver(RelPaths) \ {EmptyTree}
    /\ subdir \in {<<>>, D}
    /\ result = [ok |-> TRUE, tree |-> EmptyTree, odb |-> {}]

\* overwrite_files(repo, tree, subdir); the returned tree becomes the repository's tree
Overwrite ==
    /\ mpc = "start"
    /\ result' = overwrite_files(repo, tree, subdir)
    /\ IF result'.ok
       THEN /\ repo' = [tree |-> result'.tree, odb |-> result'.odb]
            /\ mpc' = "merged"
       ELSE /\ repo' = repo
            /\ mpc' = "raised"
    /\ UNCHANGED <<repo0, tree, subdir>>

\* the same snapshot merged again, the first result being the new destination
OverwriteAgain ==
    /\ mpc = "merged"
    /\ result' = overwrite_files(repo, tree, subdir)
    /\ IF result'.ok
       THEN /\ repo' = [tree |-> result'.tree, odb |-> result'.odb]
            /\ mpc' = "merged2"
       ELSE /\ repo' = repo
            /\ mpc' = "raised"
    /\ UNCHANGED <<repo0, tree, subdir>>

----------------------------------------------------------------------------
(* Date strings *)

DigitChars == <<"0", "1", "2", "3", "4", "5", "6", "7", "8", "9">>

Abs(n) == IF n < 0 THEN -n ELSE n

\* decimal digits of a natural number
RECURSIVE Digits(_)
Digits(n) == IF n < 10 THEN <<DigitChars[n + 1]>>
             ELSE Digits(n \div 10) \o <<DigitChars[(n % 10) + 1]>>

RECURSIVE ZeroPad(_, _)
ZeroPad(ds, width) == IF Len(ds) >= width THEN ds ELSE ZeroPad(<<"0">> \o ds, width)

\* format spec "+03": sign always, zero padded to three characters
FormatPlus03(n) == <<IF n < 0 THEN "-" ELSE "+">> \o ZeroPad(Digits(Abs(n)), 2)

\* format spec "02" (the minutes are never negative)
Format02(n) == ZeroPad(Digits(n), 2)

\* tz_hours = offset // 3600 ; tz_minutes = offset % 3600 // 60 (Python floors, as TLA+)
tz_hours(offset) == offset \div 3600
tz_minutes(offset) == (offset % 3600) \div 60

\* f"{commit.authored_date} {tz_hours:+03}{tz_minutes:02}"
authored_date_str(commit) ==
    [unix |-> commit.authored_date,
     tz |-> FormatPlus03(tz_hours(commit.author_tz_offset))
                \o Format02(tz_minutes(commit.author_tz_offset))]

----------------------------------------------------------------------------
(* Commit replay: update_branch *)

\* the author of the commits of the delivery repository
UpstreamAuthor == [name |-> "entregas", email |-> <<"entregas", "@fi.uba.ar">>]

\* git.Actor(ghuser, f"{ghuser}@users.noreply.github.com")
Actor(user) == [name |-> user, email |-> <<user, "@users.noreply.github.com">>]

Tip(r) == r.commits[Len(r.commits)]

\* repo.tree(): the tree of HEAD's commit
HeadTree(r) == IF r.HEAD = "branch" THEN Tip(r).tree ELSE r.master_tree

\* branch.checkout(): HEAD, index and working tree move to the branch
Checkout(r) ==
    [r EXCEPT !.HEAD = "branch", !.index = Tip(r).tree, !.worktree = Tip(r).tree]

Reverse(s) == [i \in 1..Len(s) |-> s[Len(s) + 1 - i]]

\* the filter with >= in place of >
pending_commits_geq(log, newest_in_repo) ==
    SelectSeq(log, LAMBDA c : c.authored_date >= newest_in_repo)

\* commits of the delivery history newer than the branch tip, in history order
pending_commits(log, newest_in_repo) ==
    SelectSeq(log, LAMBDA c : c.authored_date > newest_in_repo)

\* git.Commit.create_from_tree(repo, tree, message, head=True, author=..,
\* author_date=.., committer=.., commit_date=..) followed by
\* repo.index.reset(working_tree=True)
create_from_tree(r, t, odb, commit, author, date) ==
    LET new == [authored_date |-> date.unix,
                committed_date |-> date.unix,
                date_tz |-> date.tz,
                author |-> author,
                committer |-> author,
                message |-> commit.message,
                tree |-> t]
    IN  [r EXCEPT !.commits = Append(r.commits, new),
                  !.odb = odb,
                  !.index = t,
                  !.worktree = t]

\* the loop `for commit in reversed(pending_commits)`, from the commit at the head of
\* `todo`; a KeyError of overwrite_files ends it
RECURSIVE replay(_, _, _, _)
replay(r, todo, sd, author) ==
    IF todo = <<>> THEN [alu |-> r, raised |-> FALSE]
    ELSE LET commit == Head(todo)
             entrega_tree == commit.tree
             updated == overwrite_files([tree |-> HeadTree(r), odb |-> r.odb],
                                        entrega_tree, sd)
         IN  IF ~updated.ok
             THEN [alu |-> r, raised |-> TRUE]
             ELSE replay(create_from_tree(r, updated.tree, updated.odb, commit,
                                          author, authored_date_str(commit)),
                         Tail(todo), sd, author)

\* a printed line; n is the number formatted into it, if any
Line(text, n) == [text |-> text, n |-> n]

update_branch(r, sd, log, user) ==
    LET newest_in_repo == Tip(r).authored_date
        pending == pending_commits(log, newest_in_repo)
    IN  IF pending = <<>>
        THEN [alu |-> r, raised |-> FALSE,
              out |-> <<Line("Processing", 0), Line("nothing to do", 0)>>]
        ELSE LET done == replay(Checkout(r), Reverse(pending), sd, Actor(user))
             IN  [alu |-> done.alu, raised |-> done.raised,
                  out |-> <<Line("Processing", 0),
                            Line("applying commit(s)", Len(pending))>>]

\* trees of a student branch: with and without the directory of the TP
BranchTrees ==
    {(<<"README">> :> [sha |-> 1, mode |-> 33188]),
     (<<"README">> :> [sha |-> 1, mode |-> 33188])
        @@ (D \o <<"a">> :> [sha |-> 1, mode |-> 33188])}

\* the delivery of the k-th commit of a history
EntregaTree(k) ==
    IF k % 2 = 1
    THEN (<<"a">> :> [sha |-> 1 + (k % MaxSha), mode |-> 33188])
    ELSE (<<"a">> :> [sha |-> 1 + (k % MaxSha), mode |-> 33261])
            @@ (<<"b">> :> [sha |-> 1, mode |-> 33188])

TzOffsets == {0, 10800, -19800}

\* authored timestamps of a delivery history, newest commit first
Histories == UNION {[1..n -> 1..MaxTime] : n \in 0..MaxCommits}

\* the k-th commit of a history (the oldest is the first) carries message k
UpstreamLog(h, tz) ==
    [i \in 1..Len(h) |->
        [authored_date |-> h[i],
         author_tz_offset |-> tz,
         author |-> UpstreamAuthor,
         message |-> Len(h) + 1 - i,
         tree |-> EntregaTree(Len(h) + 1 - i)]]

ReplayIdle ==
    /\ rpc = "idle"
    /\ alu = [commits |-> <<>>, HEAD |-> "master", master_tree |-> EmptyTree,
              index |-> EmptyTree, worktree |-> EmptyTree, odb |-> {}]
    /\ alu0 = alu
    /\ upstream = <<>>
    /\ ghuser = ""
    /\ stdout = <<>>

ReplayStart ==
    /\ rpc = "start"
    /\ \E t \in BranchTrees, w \in 0..MaxTime, h \in {"master", "branch"} :
          alu = [commits |-> <<[authored_date |-> w, committed_date |-> w,
                                date_tz |-> <<"+", "0", "0", "0", "0">>,
                                author |-> Actor("alu"), committer |-> Actor("alu"),
                                message |-> 0, tree |-> t]>>,
                 HEAD |-> h,
                 master_tree |-> (<<"README">> :> [sha |-> 1, mode |-> 33188]),
                 index |-> IF h = "branch" THEN t
                           ELSE (<<"README">> :> [sha |-> 1, mode |-> 33188]),
                 worktree |-> IF h = "branch" THEN t
                              ELSE (<<"README">> :> [sha |-> 1, mode |-> 33188]),
                 odb |-> {1}]
    /\ alu0 = alu
    /\ \E h \in Histories, tz \in TzOffsets : upstream = UpstreamLog(h, tz)
    /\ ghuser = "alu"
    /\ stdout = <<>>

\* update_branch(branch, subdir, upstream, ghuser) with subdir = D
UpdateBranch ==
    /\ rpc = "start"
    /\ LET res == update_branch(alu, D, upstream, ghuser)
       IN  /\ alu' = res.alu
           /\ stdout' = stdout \o res.out
           /\ rpc' = IF res.raised THEN "raised" ELSE "done"
    /\ UNCHANGED <<alu0, upstream, ghuser>>
----------------------------------------------------------------------------
(* The date string of a replayed commit *)

TzIdle ==
    /\ tpc = "idle"
    /\ tz_commit = [authored_date |-> 0, author_tz_offset |-> 0]
    /\ date_string = [unix |-> 0, tz |-> <<>>]

TzStart ==
    /\ tpc = "start"
    /\ \E u \in 0..MaxTime, m \in -MaxTzMinutes..MaxTzMinutes :
          tz_commit = [authored_date |-> u, author_tz_offset |-> 60 * m]
    /\ date_string = [unix |-> 0, tz |-> <<>>]

\* lines 231-233 of update_branch
BuildDate ==
    /\ tpc = "start"
    /\ date_string' = authored_date_str(tz_commit)
    /\ tpc' = "done"
    /\ UNCHANGED tz_commit

----------------------------------------------------------------------------
(* Batch: main, update_repo, get_or_checkout_branch *)

\* b = [local, remote, master]: the branch exists locally, origin has a branch of
\* that name, a local master exists. The three attempts of the loop, in order:
\* no checkout, "checkout -t origin/<name>", "checkout -b <name> master"; a failed
\* checkout (GitCommandError) is passed over.
get_or_checkout_branch(b) ==
    IF b.local THEN [found |-> TRUE, checked_out |-> FALSE]
    ELSE IF b.remote THEN [found |-> TRUE, checked_out |-> TRUE]
    ELSE IF b.master THEN [found |-> TRUE, checked_out |-> TRUE]
    ELSE [found |-> FALSE, checked_out |-> FALSE]        \* returns None

\* what one iteration did: the branch of the code it left through, the lines it
\* printed, the exception that escaped it ("" if none), the commits it created
Did(outcome, lines, raised, ncommits) ==
    [outcome |-> outcome, lines |-> lines, raised |-> raised, ncommits |-> ncommits]

\* e: the planilla row of the legajo (in_planilla, Github, Repo), the state of
\* repodir (exists, valid), its branches, the repository behind it and the
\* delivery history
update_repo(e) ==
    IF ~e.in_planilla
    THEN Did("legajo not found", <<>>, "", 0)               \* silent
    ELSE IF e.Github = ""
    THEN Did("no Github account", <<Line("no se pudo encontrar cuenta de Github", 0)>>, "", 0)
    ELSE IF ~e.exists /\ e.Repo = ""
    THEN Did("no repo URL", <<Line("no se pudo encontrar repo URL", 0)>>, "", 0)
    ELSE IF e.exists /\ ~e.valid                            \* a clone is a repository
    THEN Did("invalid repository", <<Line("could not open", 0)>>, "", 0)
    ELSE LET branch == get_or_checkout_branch(e.branches)
         IN  IF ~branch.found
             THEN \* update_branch(None, ..): `branch.repo` raises AttributeError
                  Did("no branch", <<>>, "AttributeError", 0)
             ELSE LET r == IF branch.checked_out THEN Checkout(e.repo) ELSE e.repo
                      res == update_branch(r, D, e.log, e.Github)
                  IN  Did("update_branch", res.out,
                          IF res.raised THEN "KeyError" ELSE "",
                          Len(res.alu.commits) - Len(r.commits))

BatchRepo(t, h) ==
    [commits |-> <<[authored_date |-> 1, committed_date |-> 1,
                    date_tz |-> <<"+", "0", "0", "0", "0">>,
                    author |-> Actor("alu"), committer |-> Actor("alu"),
                    message |-> 0, tree |-> t]>>,
     HEAD |-> h,
     master_tree |-> (<<"README">> :> [sha |-> 1, mode |-> 33188]),
     index |-> IF h = "branch" THEN t ELSE (<<"README">> :> [sha |-> 1, mode |-> 33188]),
     worktree |-> IF h = "branch" THEN t ELSE (<<"README">> :> [sha |-> 1, mode |-> 33188]),
     odb |-> {1}]

\* the environments one legajo can meet
StudentEnvs ==
    [in_planilla : BOOLEAN, Github : {"", "alu"}, Repo : {"", "alu/algo2"},
     exists : BOOLEAN, valid : BOOLEAN,
     branches : [local : BOOLEAN, remote : BOOLEAN, master : BOOLEAN],
     repo : {BatchRepo(t, "master") : t \in BranchTrees},
     log : {UpstreamLog(h, 0) : h \in {<<>>, <<1>>, <<2>>}}]

BatchIdle ==
    /\ bpc = "idle"
    /\ legajos = <<>>
    /\ idx = 0
    /\ report = <<>>
    /\ status = 0

BatchStart ==
    /\ bpc = "start"
    /\ \E n \in 1..MaxLegajos : legajos = [i \in 1..n |-> 100 + i]
    /\ idx = 1
    /\ report = <<>>
    /\ status = 0

\* main up to the loop: the delivery repository is opened (return 1 when it is no
\* repository), and pulled when --pull-entregas is given
MainOpen ==
    /\ bpc = "start"
    /\ \E opened \in BOOLEAN :
          IF opened THEN bpc' = "loop" /\ status' = status
                    ELSE bpc' = "done" /\ status' = 1
    /\ UNCHANGED <<legajos, idx, report>>

\* one iteration of `for legajo in args.legajos`
MainLegajo ==
    /\ bpc = "loop"
    /\ idx <= Len(legajos)
    /\ \E upstream_exists \in BOOLEAN, e \in StudentEnvs :
          LET did == IF upstream_exists THEN update_repo(e)
                     ELSE Did("no delivery", <<Line("no hay entrega para", 0)>>, "", 0)
          IN  /\ report' = Append(report, [did EXCEPT !.outcome = <<legajos[idx], @>>])
              /\ IF did.raised # ""
                 THEN bpc' = "raised" /\ idx' = idx
                 ELSE bpc' = "loop" /\ idx' = idx + 1
    /\ UNCHANGED <<legajos, status>>

\* the loop is exhausted: main returns None
MainReturn ==
    /\ bpc = "loop"
    /\ idx > Len(legajos)
    /\ bpc' = "done"
    /\ UNCHANGED <<legajos, idx, report, status>>

----------------------------------------------------------------------------
(* CorregirJava.run *)

steps == <<"compilar", "validar_api", "pruebas_basicas">>

\* captured output of a target, decoded
Logs == {"", "BUILD SUCCESSFUL", "BUILD FAILED"}

\* ["ant", step] + silence
Command(s) == IF s = "pruebas_basicas" THEN <<"ant", s>> ELSE <<"ant", s, "-q", "-S">>

JavaIdle ==
    /\ jpc = "idle"
    /\ step = 0
    /\ outcomes = [s \in {} |-> <<>>]
    /\ reject = FALSE
    /\ invoked = <<>>
    /\ pending_exc = FALSE
    /\ written = <<>>

\* lines 31-33
JavaStart ==
    /\ jpc = "loop"
    /\ step = 1
    /\ outcomes = [s \in {steps[i] : i \in 1..Len(steps)} |-> <<>>]
    /\ reject = FALSE
    /\ invoked = <<>>
    /\ pending_exc = FALSE
    /\ written = <<>>

\* the loop with `if success` in place of `if not success`
AfterStep_inverted(success, i) ==
    IF success THEN [reject |-> TRUE, jpc |-> "finally"]
    ELSE IF i = Len(steps) THEN [reject |-> FALSE, jpc |-> "finally"]
    ELSE [reject |-> FALSE, jpc |-> "loop"]

\* lines 43-45 and the end of the loop: break on the first failure
AfterStep(success, i) ==
    IF ~success THEN [reject |-> TRUE, jpc |-> "finally"]
    ELSE IF i = Len(steps) THEN [reject |-> FALSE, jpc |-> "finally"]
    ELSE [reject |-> FALSE, jpc |-> "loop"]

\* one iteration of the loop: the target runs and returns
RunStep ==
    /\ jpc = "loop"
    /\ \E returncode \in {0, 1, 2}, log \in Logs :
          LET success == (returncode = 0)
              after == AfterStep(success, step)
          IN  /\ invoked' = Append(invoked, Command(steps[step]))
              /\ outcomes' = [outcomes EXCEPT ![steps[step]] = <<success, log>>]
              /\ reject' = (reject \/ after.reject)
              /\ jpc' = after.jpc
              /\ step' = step + 1
    /\ UNCHANGED <<pending_exc, written>>

\* one iteration of the loop: subprocess.run raises (ant cannot be started)
RunStepRaises ==
    /\ jpc = "loop"
    /\ invoked' = Append(invoked, Command(steps[step]))
    /\ pending_exc' = TRUE
    /\ jpc' = "finally"
    /\ UNCHANGED <<step, outcomes, reject, written>>

\* what the finally block writes
render_final(o, rj, w) == Append(w, [steps |-> o, reject |-> rj])

\* the report written after the loop only, without try/finally: an exception
\* leaves run before the report is written
Finally_no_try ==
    /\ jpc = "finally"
    /\ written' = IF pending_exc THEN written
                  ELSE render_final(outcomes, reject, written)
    /\ jpc' = IF pending_exc THEN "raised" ELSE "done"
    /\ UNCHANGED <<step, outcomes, reject, invoked, pending_exc>>

\* the finally block: the report is rendered and written, a pending exception
\* propagates
Finally ==
    /\ jpc = "finally"
    /\ written' = render_final(outcomes, reject, written)
    /\ jpc' = IF pending_exc THEN "raised" ELSE "done"
    /\ UNCHANGED <<step, outcomes, reject, invoked, pending_exc>>

----------------------------------------------------------------------------
(* Specifications *)

MergeInit == MergeStart /\ ReplayIdle /\ TzIdle /\ BatchIdle /\ JavaIdle
MergeNext ==
    \/ Overwrite /\ UNCHANGED <<replayVars, tzVars, batchVars, javaVars>>
    \/ OverwriteAgain /\ UNCHANGED <<replayVars, tzVars, batchVars, javaVars>>
SpecMerge == MergeInit /\ [][MergeNext]_vars

ReplayInit == MergeIdle /\ ReplayStart /\ TzIdle /\ BatchIdle /\ JavaIdle
ReplayNext == UpdateBranch /\ UNCHANGED <<mergeVars, tzVars, batchVars, javaVars>>
SpecReplay == ReplayInit /\ [][ReplayNext]_vars

TzInit == MergeIdle /\ ReplayIdle /\ TzStart /\ BatchIdle /\ JavaIdle
TzNext == BuildDate /\ UNCHANGED <<mergeVars, replayVars, batchVars, javaVars>>
SpecTz == TzInit /\ [][TzNext]_vars

BatchInit == MergeIdle /\ ReplayIdle /\ TzIdle /\ BatchStart /\ JavaIdle
BatchNext ==
    \/ MainOpen /\ UNCHANGED <<mergeVars, replayVars, tzVars, javaVars>>
    \/ MainLegajo /\ UNCHANGED <<mergeVars, replayVars, tzVars, javaVars>>
    \/ MainReturn /\ UNCHANGED <<mergeVars, replayVars, tzVars, javaVars>>
SpecBatch == BatchInit /\ [][BatchNext]_vars

JavaInit == MergeIdle /\ ReplayIdle /\ TzIdle /\ BatchIdle /\ JavaStart
JavaNext ==
    \/ RunStep /\ UNCHANGED <<mergeVars, replayVars, tzVars, batchVars>>
    \/ RunStepRaises /\ UNCHANGED <<mergeVars, replayVars, tzVars, batchVars>>
    \/ Finally /\ UNCHANGED <<mergeVars, replayVars, tzVars, batchVars>>
SpecJava == JavaInit /\ [][JavaNext]_vars

----------------------------------------------------------------------------
(* Properties of the tree merge *)

\* the destination tree and the snapshot as overwrite_files saw them
T == repo0.tree
S == tree
InS(p) == Under(subdir, p) /\ SubSeq(p, Len(subdir) + 1, Len(p)) \in DOMAIN S
SBlob(p) == S[SubSeq(p, Len(subdir) + 1, Len(p))]
MergePaths == DOMAIN T \cup DOMAIN result.tree \cup {subdir \o q : q \in DOMAIN S}

\* C1: with a non-empty subdir, every path of the destination tree that is not under
\* subdir is in the returned tree with the same hash and mode.
C1_OutsideUnchanged ==
    (mpc = "merged" /\ subdir # <<>>) =>
        \A p \in DOMAIN T :
            ~Under(subdir, p) => (p \in DOMAIN result.tree /\ result.tree[p] = T[p])

\* C2: under subdir the returned tree is the overwrite-union of the destination
\* subtree and the snapshot: destination-only paths keep their blob, paths of the
\* snapshot take the snapshot's blob, nothing else appears and nothing is deleted.
C2_OverwriteUnion ==
    mpc = "merged" =>
        \A p \in MergePaths :
            Under(subdir, p) =>
                /\ (p \in DOMAIN T /\ ~InS(p)) =>
                        (p \in DOMAIN result.tree /\ result.tree[p] = T[p])
                /\ InS(p) => (p \in DOMAIN result.tree /\ result.tree[p] = SBlob(p))
                /\ p \in DOMAIN result.tree => (p \in DOMAIN T \/ InS(p))

\* a merge where one path is kept, one overwritten with another blob and one added
C2_Witness ==
    /\ mpc = "merged"
    /\ subdir = D
    /\ \E p \in DOMAIN T : Under(D, p) /\ ~InS(p)
    /\ \E p \in DOMAIN T : InS(p) /\ T[p].sha # SBlob(p).sha /\ T[p].mode # SBlob(p).mode
    /\ \E p \in DOMAIN result.tree : InS(p) /\ p \notin DOMAIN T

\* C8: merging the same snapshot into the result of a merge returns the same tree.
C8_Idempotent ==
    [][mpc = "merged" => (mpc' = "merged2" /\ result'.ok /\ result'.tree = result.tree)]_vars

\* a second merge after a first one that kept, overwrote and added paths
C8_Witness ==
    /\ mpc = "merged2"
    /\ subdir = D
    /\ \E p \in DOMAIN T : Under(D, p) /\ ~InS(p)
    /\ \E p \in DOMAIN T : InS(p) /\ T[p] # SBlob(p)
    /\ \E q \in DOMAIN S : (D \o q) \notin DOMAIN T

\* C9: when subdir does not exist in the destination tree, overwrite_files returns
\* normally and the entries under subdir are exactly those of the snapshot.
C9_MissingSubdirIsEmpty ==
    (mpc # "start" /\ subdir # <<>> /\ ~TreeJoin(T, subdir).ok) =>
        /\ result.ok
        /\ {p \in DOMAIN result.tree : Under(subdir, p)} = {subdir \o q : q \in DOMAIN S}
        /\ \A q \in DOMAIN S : result.tree[subdir \o q] = S[q]

----------------------------------------------------------------------------
(* Properties of the commit replay *)

watermark == Tip(alu0).authored_date
Pending == {i \in 1..Len(upstream) : upstream[i].authored_date > watermark}
NewCommits == SubSeq(alu.commits, Len(alu0.commits) + 1, Len(alu.commits))

\* C3: when update_branch returns, the commits it added to the branch are the
\* replays of exactly the delivery commits newer than the watermark, one each, in
\* strictly increasing authored-timestamp order, each with the original's authored
\* timestamp and with the resolved account as author and committer.
C3_ReplayOrder ==
    rpc = "done" =>
        /\ Len(NewCommits) = Cardinality(Pending)
        /\ \A i \in Pending : \E k \in 1..Len(NewCommits) :
                /\ NewCommits[k].message = upstream[i].message
                /\ NewCommits[k].authored_date = upstream[i].authored_date
        /\ \A k \in 1..Len(NewCommits) :
                /\ NewCommits[k].author = Actor(ghuser)
                /\ NewCommits[k].committer = Actor(ghuser)
                /\ NewCommits[k].author # UpstreamAuthor
        /\ \A j, k \in 1..Len(NewCommits) :
                j < k => NewCommits[j].authored_date < NewCommits[k].authored_date

\* C7: when no delivery commit is newer than the branch tip, update_branch leaves
\* the repository (branch, HEAD, index, working tree) as it was and prints
\* "nothing to do".
C7_NothingToDo ==
    (rpc # "start" /\ \A i \in 1..Len(upstream) : upstream[i].authored_date <= watermark) =>
        /\ rpc = "done"
        /\ alu = alu0
        /\ stdout = <<Line("Processing", 0), Line("nothing to do", 0)>>

\* update_branch has returned; the history holds a commit as old as the tip and an
\* older one, and HEAD was not on the branch
C7_Witness ==
    /\ rpc = "done"
    /\ alu0.HEAD = "master"
    /\ Len(upstream) >= 2
    /\ \E i \in 1..Len(upstream) : upstream[i].authored_date = watermark
    /\ \E i \in 1..Len(upstream) : upstream[i].authored_date < watermark
    /\ \A i \in 1..Len(upstream) : upstream[i].authored_date <= watermark

----------------------------------------------------------------------------
(* Properties of the date string *)

DigitVal(ch) == CHOOSE d \in 0..9 : DigitChars[d + 1] = ch
IsDigit(ch) == \E d \in 0..9 : DigitChars[d + 1] = ch

\* C10: the string built is "<unix-seconds> <+-HHMM>", HH and MM two digits each,
\* with sign * (HH * 3600 + MM * 60) equal to the commit's offset in seconds.
C10_TzRoundTrip ==
    tpc = "done" =>
        LET tz == date_string.tz
        IN  /\ date_string.unix = tz_commit.authored_date
            /\ Len(tz) = 5
            /\ tz[1] \in {"+", "-"}
            /\ \A i \in 2..5 : IsDigit(tz[i])
            /\ (IF tz[1] = "-" THEN -1 ELSE 1)
                  * ((10 * DigitVal(tz[2]) + DigitVal(tz[3])) * 3600
                     + (10 * DigitVal(tz[4]) + DigitVal(tz[5])) * 60)
               = tz_commit.author_tz_offset

----------------------------------------------------------------------------
(* Properties of the batch *)

PerStudentFailures ==
    {"legajo not found", "no Github account", "no repo URL", "invalid repository",
     "no delivery", "no branch"}

\* C4: a per-student failure (legajo not in the planilla, no Github account, no
\* repo URL for a missing repository, invalid repository, no delivery, no branch)
\* lets no exception escape the loop, and every legajo of the list is processed.
C4_FailuresIsolated ==
    /\ \A k \in 1..Len(report) :
          report[k].outcome[2] \in PerStudentFailures => report[k].raised = ""
    /\ (bpc = "raised" =>
          report[Len(report)].outcome[2] \notin PerStudentFailures)

----------------------------------------------------------------------------
(* Properties of CorregirJava.run *)

Succeeded(k) == outcomes[steps[k]] # <<>> /\ outcomes[steps[k]][1]
Failed(k) == outcomes[steps[k]] # <<>> /\ ~outcomes[steps[k]][1]
Unset(k) == outcomes[steps[k]] = <<>>

\* C5: the targets are invoked in the order of `steps`; once the loop has ended
\* without an exception, either some step k failed, the steps before k succeeded,
\* the steps after k were not invoked and are None and reject is true, or the
\* three steps succeeded and reject is false.
C5_StopAtFirstFailure ==
    /\ Len(invoked) <= Len(steps)
    /\ \A i \in 1..Len(invoked) : invoked[i] = Command(steps[i])
    /\ \A k \in 1..Len(steps) : Failed(k) => Len(invoked) = k
    /\ (jpc \in {"finally", "done"} /\ ~pending_exc) =>
          \/ \E k \in 1..Len(steps) :
                /\ Failed(k)
                /\ \A j \in 1..(k - 1) : Succeeded(j)
                /\ \A j \in (k + 1)..Len(steps) : Unset(j)
                /\ Len(invoked) = k
                /\ reject
          \/ /\ \A k \in 1..Len(steps) : Succeeded(k)
             /\ Len(invoked) = Len(steps)
             /\ ~reject

\* run has returned; the first step succeeded, the second failed
C5_Witness ==
    /\ jpc = "done"
    /\ Succeeded(1)
    /\ Failed(2)
    /\ Unset(3)
    /\ reject

\* C6: when run ends, by return or by an exception of the loop, exactly one report
\* has been written; none is written while steps may still be invoked.
C6_OneReport ==
    /\ jpc \in {"done", "raised"} =>
          /\ Len(written) = 1
          /\ written[1] = [steps |-> outcomes, reject |-> reject]
    /\ jpc \in {"loop", "finally"} => written = <<>>

\* run ended by an exception raised while invoking the second step
C6_Witness ==
    /\ jpc = "raised"
    /\ pending_exc
    /\ Len(invoked) = 2
    /\ Len(written) = 1

====
